---------------------------- MODULE Spec2Model ----------------------------
(***************************************************************************)
(* Model of the request-dispatch core of tweetlib (twitter.go): CallJSON,  *)
(* Call, UpdateStatusWithMedia, checkResponse and twitterErrorReply.String.*)
(*                                                                         *)
(* Text that the code only concatenates (messages, methods) is a TLA+      *)
(* string.  Text that the code escapes or that is parsed as a URL is a     *)
(* sequence of tokens, each token either a run of unreserved characters or *)
(* one reserved character.                                                 *)
(***************************************************************************)
EXTENDS Integers, Sequences, FiniteSets, TLC

VARIABLES pc, call, req, doCount, res, bodyState, ret, target

vars == <<pc, call, req, doCount, res, bodyState, ret, target>>

-----------------------------------------------------------------------------
(* Bounds of the model *)

\* longest error list a response carries
MaxErrors == 2

-----------------------------------------------------------------------------
(* Constants of the program *)

apiURL == "https://api.twitter.com/1.1"

-----------------------------------------------------------------------------
(* Error values *)

Nil == [kind |-> "nil", msg |-> ""]

Err(kind, msg) == [kind |-> kind, msg |-> msg]

-----------------------------------------------------------------------------
(* JSON documents, as the parser sees them *)

Absent == [t |-> "absent"]
JNull == [t |-> "null"]
JNum(n) == [t |-> "num", n |-> n]
JStr(s) == [t |-> "str", s |-> s]
JArr(a) == [t |-> "arr", a |-> a]
\* an element of the "errors" array
JEntry(m, c) == [t |-> "obj", message |-> m, code |-> c]
\* a top-level object; a key the object lacks is Absent
JDoc(e, i, x) == [t |-> "obj", errors |-> e, id |-> i, text |-> x]

\* a body: bytes that are a JSON text (wf) holding doc, or bytes that are not
Body(wf, doc) == [wf |-> wf, doc |-> doc]

Malformed == Body(FALSE, JNull)


-----------------------------------------------------------------------------
(* The inputs the model draws from *)

Methods == {"GET", "POST", "PUT", "get"}

Endpoints == {"statuses/show", "statuses/update"}

\* parameter names, and the byte order sort.Strings gives them
Names == {"id", "status"}
NameOrder == <<"id", "status">>

\* parameter values and status texts, as token sequences
PlainText == <<"42">>
SpacedText == <<"a", " ", "b", "&", "c">>
Texts == {PlainText, SpacedText}

\* what url.Values holds for one name: its values in insertion order; a name
\* the container lacks has none
ValueLists == {<<>>, <<SpacedText>>, <<SpacedText, PlainText>>}

Containers == [Names -> ValueLists]

NoOpts == [nil |-> TRUE]
Opts(values) == [nil |-> FALSE, Values |-> values]
OptsInputs == {NoOpts} \cup {Opts(v) : v \in Containers}

\* NewOptionals(): an empty container
NewOptionals == Opts([n \in Names |-> <<>>])

\* the caller's target of Call: none, a nil pointer, or a pointer to a struct
NoTarget == [kind |-> "none"]
NilPointer == [kind |-> "nilptr"]
Struct(id, text) == [kind |-> "struct", Id |-> id, Text |-> text]
TargetInputs == {NoTarget, NilPointer, Struct(0, ""), Struct(7, "old")}

Media(filename, data) == [Filename |-> filename, Data |-> data]
NoMedia == Media("", <<>>)
\* the attachment's bytes are tokens too
MediaInputs == {Media("a.png", <<"0x89", "PNG">>), Media("b.jpg", <<>>)}

\* boundaries multipart.NewWriter may draw
Boundaries == {"b1", "b2"}

-----------------------------------------------------------------------------
(* The responses the transport may give *)

Statuses == {199, 200, 299, 300, 404}

ErrorEntries == {JEntry(JStr("Invalid id"), JNum(144)),
                 JEntry(JStr("A"), JNum(1)),
                 JEntry(JStr("B"), JNum(2))}

RECURSIVE SeqsUpTo(_, _)
SeqsUpTo(S, n) ==
    IF n = 0 THEN {<<>>}
    ELSE LET shorter == SeqsUpTo(S, n - 1)
         IN  shorter \cup {Append(s, e) : s \in shorter, e \in S}

EnvelopeDocs ==
    {JDoc(JArr(es), Absent, Absent) : es \in SeqsUpTo(ErrorEntries, MaxErrors)}

TweetDocs ==
    {JDoc(Absent, i, x) : i \in {JNum(42), JStr("42")}, x \in {JStr("hi"), JNum(5)}}

Docs == {JNull, JArr(<<>>), JDoc(Absent, Absent, Absent), JDoc(JNull, Absent, Absent),
         JDoc(JStr("oops"), Absent, Absent),
         JDoc(JArr(<<JEntry(JStr("A"), JStr("1"))>>), Absent, Absent)}
        \cup EnvelopeDocs \cup TweetDocs

Bodies == {Malformed} \cup {Body(TRUE, d) : d \in Docs}

\* readFails: reading the body ends in an error instead of EOF
Response(status, body, readFails) ==
    [StatusCode |-> status, Body |-> body, readFails |-> readFails]

Responses == {Response(s, b, f) : s \in Statuses, b \in Bodies, f \in BOOLEAN}

NoRes == [none |-> TRUE]
NoReq == [none |-> TRUE]


-----------------------------------------------------------------------------
(* twitterErrorReply and its rendering *)

\* twitterError{Message, Code}
TwitterError(message, code) == [Message |-> message, Code |-> code]

\* fmt.Fprintf(buf, "%s (%d)\n", Message, Code) for one entry
FormatEntry(e) == e.Message \o " (" \o ToString(e.Code) \o ")\n"

\* twitterErrorReply.String(): every entry formatted, in order, into one buffer
RECURSIVE String(_)
String(errors) ==
    IF errors = <<>> THEN ""
    ELSE FormatEntry(Head(errors)) \o String(Tail(errors))

\* json.Unmarshal of one element of "errors" into a twitterError: a field whose
\* JSON type does not fit keeps its zero value and is a type mismatch
EntryValue(j) ==
    IF j.t # "obj" THEN TwitterError("", 0)
    ELSE TwitterError(IF j.message.t = "str" THEN j.message.s ELSE "",
                      IF j.code.t = "num" THEN j.code.n ELSE 0)

EntryMismatch(j) ==
    IF j.t = "null" THEN FALSE
    ELSE IF j.t # "obj" THEN TRUE
    ELSE \/ j.message.t \notin {"str", "null", "absent"}
         \/ j.code.t \notin {"num", "null", "absent"}

\* json.Unmarshal(slurp, &jerr): the decoded reply and the error
UnmarshalErrorReply(body) ==
    IF ~body.wf THEN [Errors |-> <<>>, err |-> Err("syntax", "invalid character")]
    ELSE LET d == body.doc IN
      CASE d.t = "null" -> [Errors |-> <<>>, err |-> Nil]
        [] d.t # "obj" -> [Errors |-> <<>>, err |-> Err("type", "json: cannot unmarshal")]
        [] OTHER ->
             LET e == d.errors IN
             IF e.t \in {"absent", "null"} THEN [Errors |-> <<>>, err |-> Nil]
             ELSE IF e.t # "arr"
                  THEN [Errors |-> <<>>, err |-> Err("type", "json: cannot unmarshal")]
             ELSE [Errors |-> [i \in 1..Len(e.a) |-> EntryValue(e.a[i])],
                   err |-> IF \E i \in 1..Len(e.a) : EntryMismatch(e.a[i])
                           THEN Err("type", "json: cannot unmarshal")
                           ELSE Nil]

-----------------------------------------------------------------------------
(* json.Unmarshal into the caller's target *)

\* the target after json.Unmarshal(rawJSON, resp): a field whose JSON value
\* fits is set, any other field is left as it was
UnmarshalTargetValue(body, tgt) ==
    IF tgt.kind # "struct" \/ ~body.wf \/ body.doc.t # "obj" THEN tgt
    ELSE Struct(IF body.doc.id.t = "num" THEN body.doc.id.n ELSE tgt.Id,
                IF body.doc.text.t = "str" THEN body.doc.text.s ELSE tgt.Text)

\* the error of json.Unmarshal(rawJSON, resp)
UnmarshalTargetErr(body, tgt) ==
    IF ~body.wf THEN Err("syntax", "invalid character")
    ELSE IF tgt.kind # "struct" THEN Err("invalidUnmarshal", "json: Unmarshal(nil)")
    ELSE IF body.doc.t = "null" THEN Nil
    ELSE IF body.doc.t # "obj" THEN Err("type", "json: cannot unmarshal")
    ELSE IF \/ body.doc.id.t \notin {"num", "null", "absent"}
            \/ body.doc.text.t \notin {"str", "null", "absent"}
         THEN Err("type", "json: cannot unmarshal")
    ELSE Nil


-----------------------------------------------------------------------------
(* url.Values.Encode *)

\* url.QueryEscape of one token: a reserved character is escaped, a run of
\* unreserved characters is kept
EscapeToken(tok) ==
    CASE tok = " " -> "+"
      [] tok = "&" -> "%26"
      [] tok = "=" -> "%3D"
      [] tok = "?" -> "%3F"
      [] tok = "+" -> "%2B"
      [] OTHER -> tok

QueryEscape(text) == [i \in 1..Len(text) |-> EscapeToken(text[i])]

\* key=value for every value of one key, each pair after the first of the
\* whole buffer preceded by "&"
RECURSIVE EncodeKey(_, _, _)
EncodeKey(buf, key, vs) ==
    IF vs = <<>> THEN buf
    ELSE EncodeKey((IF buf = <<>> THEN buf ELSE Append(buf, "&"))
                     \o QueryEscape(<<key>>) \o <<"=">> \o QueryEscape(Head(vs)),
                   key, Tail(vs))

RECURSIVE EncodeFrom(_, _, _)
EncodeFrom(buf, values, keys) ==
    IF keys = <<>> THEN buf
    ELSE EncodeFrom(EncodeKey(buf, Head(keys), values[Head(keys)]), values, Tail(keys))

\* Values.Encode(): the keys in sorted order
Encode(values) == EncodeFrom(<<>>, values, NameOrder)

-----------------------------------------------------------------------------
(* Requests *)

NoBody == [kind |-> "none"]
BytesBody(data) == [kind |-> "bytes", data |-> data]
MultipartBody(boundary, parts, closed) ==
    [kind |-> "multipart", boundary |-> boundary, parts |-> parts, closed |-> closed]

Request(method, url, body, contentType) ==
    [Method |-> method, URL |-> url, Body |-> body, ContentType |-> contentType]

\* fmt.Sprintf("%s/%s.json?%s", apiURL, endpoint, opts.Values.Encode())
EndpointURL(endpoint, values) ==
    <<apiURL, "/", endpoint, ".json", "?">> \o Encode(values)

\* variants of the request CallJSON builds: a POST without the query string,
\* and a POST without the body
BuildRequestBodyOnly(method, endpoint, values) ==
    IF method = "POST"
    THEN Request(method, <<apiURL, "/", endpoint, ".json">>,
                 BytesBody(Encode(values)), <<"application/x-www-form-urlencoded">>)
    ELSE Request(method, EndpointURL(endpoint, values), NoBody, <<>>)

BuildRequestQueryOnly(method, endpoint, values) ==
    IF method = "POST"
    THEN Request(method, EndpointURL(endpoint, values),
                 BytesBody(<<>>), <<"application/x-www-form-urlencoded">>)
    ELSE Request(method, EndpointURL(endpoint, values), NoBody, <<>>)

\* the request CallJSON hands to the transport
BuildRequest(method, endpoint, values) ==
    IF method = "POST"
    THEN Request(method, EndpointURL(endpoint, values),
                 BytesBody(Encode(values)), <<"application/x-www-form-urlencoded">>)
    ELSE Request(method, EndpointURL(endpoint, values), NoBody, <<>>)

\* the split url.Parse makes of a request URL at its first "?"
RECURSIVE IndexOf(_, _, _)
IndexOf(s, tok, i) ==
    IF i > Len(s) THEN 0
    ELSE IF s[i] = tok THEN i
    ELSE IndexOf(s, tok, i + 1)

URLParse(url) ==
    LET q == IndexOf(url, "?", 1) IN
    IF q = 0 THEN [Path |-> url, HasQuery |-> FALSE, RawQuery |-> <<>>]
    ELSE [Path |-> SubSeq(url, 1, q - 1), HasQuery |-> TRUE,
          RawQuery |-> SubSeq(url, q + 1, Len(url))]

-----------------------------------------------------------------------------
(* The multipart body of UpdateStatusWithMedia *)

FieldPart(name, value) ==
    [name |-> name, isFile |-> FALSE, filename |-> "", content |-> value]
FilePart(name, filename, data) ==
    [name |-> name, isFile |-> TRUE, filename |-> filename, content |-> data]

\* the names the container holds
Keys(values) == {n \in Names : values[n] # <<>>}

\* the orders in which `range opts.Values` may visit the keys
KeyOrders(values) ==
    {o \in SeqsUpTo(Names, Cardinality(Names)) :
        /\ Len(o) = Cardinality(Keys(values))
        /\ {o[i] : i \in 1..Len(o)} = Keys(values)}

\* mp.WriteField(n, v[0]) for the keys in the order visited
ParamFields(values, order) ==
    [i \in 1..Len(order) |-> FieldPart(order[i], values[order[i]][1])]

\* the body once mp.Close() has run
MediaBody(status, media, values, order, boundary) ==
    MultipartBody(boundary,
                  <<FieldPart("status", status)>> \o ParamFields(values, order)
                    \o <<FilePart("media[]", media.Filename, media.Data)>>,
                  TRUE)

\* fmt.Sprintf("multipart/form-data;boundary=%v", mp.Boundary())
MediaHeader(boundary) == <<"multipart/form-data;boundary=", boundary>>

\* fmt.Sprintf("%s/statuses/update_with_media.json?%s", apiURL, opts.Values.Encode())
MediaURL(values) ==
    <<apiURL, "/", "statuses/update_with_media", ".json", "?">> \o Encode(values)

\* a variant that also puts the status text into the query string
MediaRequestStatusInQuery(status, media, values, order, boundary) ==
    Request("POST",
            MediaURL([values EXCEPT !["status"] = Append(@, status)]),
            MediaBody(status, media, values, order, boundary), MediaHeader(boundary))

\* the request UpdateStatusWithMedia hands to the transport
MediaRequest(status, media, values, order, boundary) ==
    Request("POST", MediaURL(values),
            MediaBody(status, media, values, order, boundary), MediaHeader(boundary))


-----------------------------------------------------------------------------
(* checkResponse, CallJSON, Call and the decoder, on one response *)

NoBytes == [nil |-> TRUE]
\* what ioutil.ReadAll returns beside its error when the read fails
PartialBytes == [partial |-> TRUE]

\* a variant without the upper limit
Is2xxNoUpper(status) == status >= 200
\* res.StatusCode >= 200 && res.StatusCode <= 299
Is2xx(status) == status >= 200 /\ status <= 299

\* ioutil.ReadAll(res.Body): the bytes, the error, and where it leaves the body
ReadAll(r) ==
    IF r.readFails
    THEN [bytes |-> PartialBytes, err |-> Err("read", "unexpected EOF"), bodyState |-> "err"]
    ELSE [bytes |-> r.Body, err |-> Nil, bodyState |-> "eof"]

\* checkResponse(res): its error, and where it leaves the body
CheckResponse(r) ==
    IF Is2xx(r.StatusCode) THEN [err |-> Nil, bodyState |-> "unread"]
    ELSE LET slurp == ReadAll(r) IN
         IF slurp.err # Nil THEN [err |-> slurp.err, bodyState |-> slurp.bodyState]
         ELSE LET jerr == UnmarshalErrorReply(slurp.bytes) IN
              IF jerr.err # Nil THEN [err |-> jerr.err, bodyState |-> slurp.bodyState]
              ELSE [err |-> Err("errorString", String(jerr.Errors)),
                    bodyState |-> slurp.bodyState]

\* CallJSON from the transport's response on
CallJSONResult(r) ==
    LET chk == CheckResponse(r) IN
    IF chk.err # Nil
    THEN [rawJSON |-> NoBytes, err |-> chk.err, bodyState |-> chk.bodyState]
    ELSE LET all == ReadAll(r) IN
         [rawJSON |-> all.bytes, err |-> all.err, bodyState |-> all.bodyState]

\* the decode errors Call does not return: reflect.TypeOf(err) is
\* *json.UnmarshalTypeError
SwallowedAny(err) == TRUE  \* a variant that swallows every decode error
Swallowed(err) == err.kind = "type"

\* Call from the transport's response on: its error and the caller's target
CallResult(r, resp) ==
    LET raw == CallJSONResult(r) IN
    IF raw.err # Nil
    THEN [err |-> raw.err, target |-> resp, bodyState |-> raw.bodyState]
    ELSE IF resp.kind = "none"
    THEN [err |-> Nil, target |-> resp, bodyState |-> raw.bodyState]
    ELSE LET err == UnmarshalTargetErr(raw.rawJSON, resp) IN
         [err |-> IF err # Nil /\ ~Swallowed(err) THEN err ELSE Nil,
          target |-> UnmarshalTargetValue(raw.rawJSON, resp),
          bodyState |-> raw.bodyState]

\* json.NewDecoder(res.Body).Decode(tweet) with tweet the nil named result:
\* the decoder reads until the first JSON value is complete, or a syntax or
\* read error stops it, and only then rejects the nil pointer.  How far the
\* body has been read by then depends on how the reader hands out its bytes.
DecodeOutcomes(r) ==
    LET verdict == IF r.Body.wf
                   THEN Err("invalidUnmarshal", "json: Unmarshal(nil *tweetlib.Tweet)")
                   ELSE Err("syntax", "invalid character")
    IN  IF r.readFails
        THEN {[err |-> Err("read", "unexpected EOF"), bodyState |-> "err"],
              [err |-> verdict, bodyState |-> "partial"]}
        ELSE {[err |-> verdict, bodyState |-> "partial"],
              [err |-> verdict, bodyState |-> "eof"]}

\* UpdateStatusWithMedia from the transport's response on
MediaOutcomes(r) ==
    LET chk == CheckResponse(r) IN
    IF chk.err # Nil THEN {chk} ELSE DecodeOutcomes(r)

-----------------------------------------------------------------------------
(* The state machine of one call *)

NoCall == [op |-> "none"]

CallRec(op, method, endpoint, opts, resp, status, media) ==
    [op |-> op, method |-> method, endpoint |-> endpoint, opts |-> opts,
     resp |-> resp, status |-> status, media |-> media]

Ret(rawJSON, err) == [rawJSON |-> rawJSON, err |-> err]
NoRet == [none |-> TRUE]

\* if opts == nil { opts = NewOptionals() }
EffectiveValues(opts) == IF opts.nil THEN NewOptionals.Values ELSE opts.Values

\* a variant that lets PUT through
InvalidMethodLax(method) == method \notin {"GET", "POST", "PUT"}
\* method != "GET" && method != "POST"
InvalidMethod(method) == method # "GET" /\ method # "POST"

InvalidMethodError(method) ==
    Err("invalidMethod",
        "Invalid method '" \o method \o "'. Must be either GET or POST.")

Init ==
    /\ pc = "idle"
    /\ call = NoCall
    /\ req = NoReq
    /\ doCount = 0
    /\ res = NoRes
    /\ bodyState = "none"
    /\ ret = NoRet
    /\ target = NoTarget

\* CallJSON up to c.client.Do(req), entered directly or from Call
EnterCallJSON(op, method, endpoint, opts, resp) ==
    /\ pc = "idle"
    /\ call' = CallRec(op, method, endpoint, opts, resp, <<>>, NoMedia)
    /\ target' = resp
    /\ IF InvalidMethod(method)
       THEN /\ pc' = "returned"
            /\ ret' = Ret(NoBytes, InvalidMethodError(method))
            /\ UNCHANGED <<req, doCount>>
       ELSE /\ pc' = "sending"
            /\ req' = BuildRequest(method, endpoint, EffectiveValues(opts))
            /\ doCount' = doCount + 1
            /\ UNCHANGED ret
    /\ UNCHANGED <<res, bodyState>>

InvokeCallJSON ==
    \E method \in Methods, endpoint \in Endpoints, opts \in OptsInputs :
        EnterCallJSON("CallJSON", method, endpoint, opts, NoTarget)

InvokeCall ==
    \E method \in Methods, endpoint \in Endpoints, opts \in OptsInputs,
       resp \in TargetInputs :
        EnterCallJSON("Call", method, endpoint, opts, resp)

\* UpdateStatusWithMedia up to c.client.Do(req)
InvokeUpdateStatusWithMedia ==
    \E status \in Texts, media \in MediaInputs, opts \in OptsInputs,
       boundary \in Boundaries :
      \E order \in KeyOrders(EffectiveValues(opts)) :
        /\ pc = "idle"
        /\ call' = CallRec("UpdateStatusWithMedia", "POST",
                           "statuses/update_with_media", opts, NoTarget, status, media)
        /\ target' = NoTarget
        /\ req' = MediaRequest(status, media, EffectiveValues(opts), order, boundary)
        /\ doCount' = doCount + 1
        /\ pc' = "sending"
        /\ UNCHANGED <<res, bodyState, ret>>

\* c.client.Do(req) returns an error
TransportFail ==
    /\ pc = "sending"
    /\ pc' = "returned"
    /\ ret' = Ret(NoBytes, Err("transport", "network error"))
    /\ UNCHANGED <<call, req, doCount, res, bodyState, target>>

\* c.client.Do(req) returns a response
TransportRespond ==
    /\ pc = "sending"
    /\ \E r \in Responses : res' = r
    /\ bodyState' = "unread"
    /\ pc' = "responded"
    /\ UNCHANGED <<call, req, doCount, ret, target>>

ReturnCallJSON ==
    /\ pc = "responded"
    /\ call.op = "CallJSON"
    /\ LET out == CallJSONResult(res) IN
        /\ ret' = Ret(out.rawJSON, out.err)
        /\ bodyState' = out.bodyState
    /\ pc' = "returned"
    /\ UNCHANGED <<call, req, doCount, res, target>>

ReturnCall ==
    /\ pc = "responded"
    /\ call.op = "Call"
    /\ LET out == CallResult(res, target) IN
        /\ ret' = Ret(NoBytes, out.err)
        /\ target' = out.target
        /\ bodyState' = out.bodyState
    /\ pc' = "returned"
    /\ UNCHANGED <<call, req, doCount, res>>

ReturnUpdateStatusWithMedia ==
    /\ pc = "responded"
    /\ call.op = "UpdateStatusWithMedia"
    /\ \E out \in MediaOutcomes(res) :
        /\ ret' = Ret(NoBytes, out.err)
        /\ bodyState' = out.bodyState
    /\ pc' = "returned"
    /\ UNCHANGED <<call, req, doCount, res, target>>

\* the caller has its result; the next call starts afresh
NextCall ==
    /\ pc = "returned"
    /\ pc' = "idle"
    /\ call' = NoCall
    /\ req' = NoReq
    /\ doCount' = 0
    /\ res' = NoRes
    /\ bodyState' = "none"
    /\ ret' = NoRet
    /\ target' = NoTarget

Next ==
    \/ InvokeCallJSON
    \/ InvokeCall
    \/ InvokeUpdateStatusWithMedia
    \/ TransportFail
    \/ TransportRespond
    \/ ReturnCallJSON
    \/ ReturnCall
    \/ ReturnUpdateStatusWithMedia
    \/ NextCall

Spec == Init /\ [][Next]_vars


-----------------------------------------------------------------------------
(* What the receiving side reads out of a query string (url.ParseQuery) *)

RECURSIVE SplitOn(_, _)
SplitOn(s, tok) ==
    IF s = <<>> THEN <<>>
    ELSE LET i == IndexOf(s, tok, 1) IN
         IF i = 0 THEN <<s>>
         ELSE <<SubSeq(s, 1, i - 1)>> \o SplitOn(SubSeq(s, i + 1, Len(s)), tok)

UnescapeToken(tok) ==
    CASE tok = "+" -> " "
      [] tok = "%26" -> "&"
      [] tok = "%3D" -> "="
      [] tok = "%3F" -> "?"
      [] tok = "%2B" -> "+"
      [] OTHER -> tok

Pair(name, value) == [name |-> name, value |-> value]

QueryPairs(q) ==
    LET segs == SplitOn(q, "&") IN
    {Pair(segs[j][1], [i \in 1..(Len(segs[j]) - 2) |-> UnescapeToken(segs[j][i + 2])]) :
        j \in 1..Len(segs)}

ContainerPairs(values) ==
    UNION {{Pair(n, values[n][k]) : k \in 1..Len(values[n])} : n \in Names}

\* the entries of an envelope rendered "{message} ({code})" and joined by "\n"
RECURSIVE JoinEntries(_)
JoinEntries(entries) ==
    LET first == Head(entries).message.s \o " (" \o ToString(Head(entries).code.n) \o ")"
    IN  IF Len(entries) = 1 THEN first
        ELSE first \o "\n" \o JoinEntries(Tail(entries))

-----------------------------------------------------------------------------
(* The claims *)

Returned == pc = "returned"
Responded == res # NoRes
Success == res.StatusCode \in 200..299
Generic == call.op \in {"CallJSON", "Call"}
MediaCall == call.op = "UpdateStatusWithMedia"
UrlEncoded == <<"application/x-www-form-urlencoded">>

\* C1: a call of CallJSON or Call with a method other than GET and POST has
\* returned a non-nil invalid-method error, and during it no request was built
\* and the transport was never asked to execute one.
C1_InvalidMethodRejected ==
    (Generic /\ call.method \notin {"GET", "POST"}) =>
        /\ pc = "returned"
        /\ ret.err # Nil
        /\ ret.err = InvalidMethodError(call.method)
        /\ doCount = 0
        /\ req = NoReq
        /\ res = NoRes

C1_Witness ==
    /\ pc = "returned"
    /\ call.op = "Call"
    /\ call.method = "PUT"
    /\ call.opts = NoOpts
    /\ ret.err.kind = "invalidMethod"
    /\ doCount = 0

\* C2: for a non-2xx response whose body is an error envelope with n >= 1
\* entries, the returned error's message is exactly the entries rendered
\* "{message} ({code})", in order, joined by single newlines, with nothing
\* before the first or after the last entry.
C2_EnvelopeFolding ==
    (/\ Returned /\ Responded /\ ~Success /\ ~res.readFails
     /\ res.Body \in {Body(TRUE, d) : d \in EnvelopeDocs}
     /\ Len(res.Body.doc.errors.a) >= 1)
    => ret.err.msg = JoinEntries(res.Body.doc.errors.a)

\* C3: Call with a supplied target and a 2xx response whose body was read:
\* when the body is valid JSON and the target can be decoded into, Call
\* returns no error, whether or not fields mismatch, and every field whose
\* JSON value fits is populated while the others keep their value; any other
\* decode failure (malformed JSON, an undecodable target) is returned.
C3_TolerantDecode ==
    (/\ Returned /\ call.op = "Call" /\ call.resp.kind # "none"
     /\ Responded /\ Success /\ ~res.readFails)
    => IF res.Body.wf /\ call.resp.kind = "struct"
       THEN /\ ret.err = Nil
            /\ LET d == res.Body.doc IN
               IF d.t = "obj"
               THEN /\ target.Id = IF d.id.t = "num" THEN d.id.n ELSE call.resp.Id
                    /\ target.Text = IF d.text.t = "str" THEN d.text.s
                                     ELSE call.resp.Text
               ELSE target = call.resp
       ELSE /\ ret.err # Nil
            /\ ret.err.kind = IF res.Body.wf THEN "invalidUnmarshal" ELSE "syntax"
            /\ target = call.resp

C3_Witness ==
    /\ Returned
    /\ call.op = "Call"
    /\ call.resp = Struct(7, "old")
    /\ Responded
    /\ res.StatusCode = 200
    /\ res.Body = Body(TRUE, JDoc(Absent, JStr("42"), JStr("hi")))
    /\ ret.err = Nil
    /\ target = Struct(7, "hi")

\* C4: the request CallJSON builds for GET has the encoded parameters as its
\* URL's query string and no body; the one it builds for POST has the encoded
\* parameter string as its body and the urlencoded Content-Type.
C4_Placement ==
    (Generic /\ req # NoReq) =>
        LET values == EffectiveValues(call.opts)
            url == URLParse(req.URL)
        IN  /\ req.Method = call.method
            /\ call.method = "GET" =>
                 /\ url.RawQuery = Encode(values)
                 /\ QueryPairs(url.RawQuery) = ContainerPairs(values)
                 /\ req.Body = NoBody
            /\ call.method = "POST" =>
                 /\ req.Body = BytesBody(Encode(values))
                 /\ QueryPairs(req.Body.data) = ContainerPairs(values)
                 /\ req.ContentType = UrlEncoded

C4_Witness ==
    /\ pc = "sending"
    /\ call.op = "CallJSON"
    /\ call.method = "POST"
    /\ req.Body = BytesBody(<<"id", "=", "a", "+", "b", "%26", "c",
                              "&", "id", "=", "42">>)
    /\ req.ContentType = UrlEncoded

\* C5 as stated: the URL of a POST request built by CallJSON is the base URL
\* plus the endpoint path plus ".json" and carries no query string.
C5_PostURLHasNoQuery ==
    (Generic /\ req # NoReq /\ call.method = "POST") =>
        /\ req.URL = <<apiURL, "/", call.endpoint, ".json">>
        /\ ~URLParse(req.URL).HasQuery

\* C5 as amended: the URL of a POST request built by CallJSON is the base URL
\* plus the endpoint path plus ".json", followed by "?" and the encoded
\* parameters (a bare "?" when there are none): the parameters appear both in
\* the URL's query string and in the request body.
C5_PostURLRepeatsParameters ==
    (Generic /\ req # NoReq /\ call.method = "POST") =>
        LET values == EffectiveValues(call.opts) IN
        /\ URLParse(req.URL) = [Path |-> <<apiURL, "/", call.endpoint, ".json">>,
                                HasQuery |-> TRUE,
                                RawQuery |-> Encode(values)]
        /\ req.Body.kind = "bytes"
        /\ req.Body.data = URLParse(req.URL).RawQuery

C5_Witness ==
    /\ pc = "sending"
    /\ call.op = "Call"
    /\ call.method = "POST"
    /\ call.endpoint = "statuses/update"
    /\ req.URL = <<apiURL, "/", "statuses/update", ".json", "?",
                   "status", "=", "a", "+", "b", "%26", "c">>
    /\ req.Body.data = <<"status", "=", "a", "+", "b", "%26", "c">>

\* C6: for a non-2xx response whose body is valid JSON yielding an envelope
\* with zero entries ({"errors":[]} or {}), the call reports a decode
\* failure, not an error synthesized from the empty entry list.
C6_EmptyEnvelopeIsDecodeFailure ==
    (/\ Returned /\ Responded /\ ~Success /\ ~res.readFails
     /\ res.Body \in {Body(TRUE, JDoc(JArr(<<>>), Absent, Absent)),
                      Body(TRUE, JDoc(Absent, Absent, Absent))})
    => /\ ret.err.kind \in {"syntax", "type"}
       /\ ret.err.kind # "errorString"

\* C7: the POST request UpdateStatusWithMedia builds has a multipart body
\* with a status field equal to the given status, for each entry of the
\* container fields carrying every value of the entry, and exactly one file
\* part media[] with the given filename and bytes; the boundary in the
\* Content-Type header is the boundary of the body.
C7_MultipartComposition ==
    (MediaCall /\ req # NoReq) =>
        LET parts == req.Body.parts
            values == EffectiveValues(call.opts)
            has(p) == \E i \in 1..Len(parts) : parts[i] = p
        IN  /\ req.Method = "POST"
            /\ req.Body.kind = "multipart"
            /\ has(FieldPart("status", call.status))
            /\ \A n \in Names : \A k \in 1..Len(values[n]) :
                 has(FieldPart(n, values[n][k]))
            /\ Cardinality({i \in 1..Len(parts) : parts[i].isFile}) = 1
            /\ has(FilePart("media[]", call.media.Filename, call.media.Data))
            /\ req.ContentType = <<"multipart/form-data;boundary=", req.Body.boundary>>

\* C8 as stated: the URL of the request UpdateStatusWithMedia builds carries,
\* in its query string, the status text and every parameter of the container.
C8_QueryCarriesStatus ==
    (MediaCall /\ req # NoReq) =>
        LET pairs == QueryPairs(URLParse(req.URL).RawQuery) IN
        /\ Pair("status", call.status) \in pairs
        /\ ContainerPairs(EffectiveValues(call.opts)) \subseteq pairs

\* C8 as amended: the URL of the request UpdateStatusWithMedia builds is the
\* endpoint URL followed by "?" and the encoding of the container alone: its
\* query string carries every value of every parameter of the container and
\* nothing else; the status argument is written to the multipart body only.
C8_QueryIsContainerOnly ==
    (MediaCall /\ req # NoReq) =>
        LET values == EffectiveValues(call.opts)
            url == URLParse(req.URL)
        IN  /\ url.Path = <<apiURL, "/", "statuses/update_with_media", ".json">>
            /\ url.HasQuery
            /\ url.RawQuery = Encode(values)
            /\ QueryPairs(url.RawQuery) = ContainerPairs(values)
            /\ \E i \in 1..Len(req.Body.parts) :
                 req.Body.parts[i] = FieldPart("status", call.status)

C8_Witness ==
    /\ pc = "sending"
    /\ MediaCall
    /\ call.status = PlainText
    /\ call.opts = Opts([n \in Names |-> IF n = "id" THEN <<SpacedText>> ELSE <<>>])
    /\ URLParse(req.URL).RawQuery = <<"id", "=", "a", "+", "b", "%26", "c">>
    /\ req.Body.parts[1] = FieldPart("status", PlainText)

\* C9: in every call for which the transport returned a response, the
\* response body has been read to its end (to EOF, or to the error that ends
\* it) by the time the call returns.
C9_BodyDrained ==
    (Returned /\ Responded) => bodyState \in {"eof", "err"}

\* C10: a call returns a nil error only if the transport returned a status in
\* 200..299; for a response with any other status, whatever its body, the
\* call returns a non-nil error and the caller's target is as it was before.
C10_NilErrorOnly2xx ==
    Returned =>
        /\ ret.err = Nil => (Responded /\ Success)
        /\ (Responded /\ ~Success) => (ret.err # Nil /\ target = call.resp)

C10_Witness ==
    /\ Returned
    /\ call.op = "Call"
    /\ call.resp = Struct(7, "old")
    /\ Responded
    /\ res.StatusCode = 300
    /\ res.Body = Body(TRUE, JDoc(Absent, JNum(42), JStr("hi")))
    /\ ret.err = Err("errorString", "")
    /\ target = Struct(7, "old")

=============================================================================
